---- MODULE Spec2Model ----
(***************************************************************************)
(* A model of adso.js: the tree-walking Interpreter (scope chain, operand  *)
(* stack, visitFnCall, return by exception) run on programs of the shape   *)
(* that parse() produces.                                                  *)
(*                                                                         *)
(* The JavaScript call stack is the variable ctl: a sequence of frames,    *)
(* the last one being the function that is executing.  An exception is an  *)
(* unwinding of ctl to the nearest try block of visitFnCall.               *)
(***************************************************************************)
EXTENDS Integers, Sequences, FiniteSets, TLC

\* Largest argument k of the README program fact(k).
MaxK == 5
\* Largest number of visitFnCall activations that are live at once.
MaxDepth == 8
\* Largest number literal of the generated programs.
MaxLit == 1
\* Longest run of whitespace that is put around the tokens of a buffer.
MaxBlank == 2

(***************************************************************************)
(* JavaScript null and undefined.  A name cannot hold '<', so the strings  *)
(* below are never identifiers of a program.                               *)
(***************************************************************************)
NullName == "<null>"
Null == [type |-> "<null>"]
Undefined == [type |-> "<undefined>"]

(***************************************************************************)
(* AST nodes, as parse() builds them.                                      *)
(***************************************************************************)
Number(v) == [type |-> "number", value |-> v]
Ident(s) == [type |-> "ident", value |-> s]
FnCall(name, arg) == [type |-> "FnCall", name |-> name, arg |-> arg]
ArithExpr(left, op, right) ==
    [type |-> "ArithExpr", left |-> left, op |-> op, right |-> right]
ReturnSt(value) == [type |-> "ReturnSt", value |-> value]
IfSt(condition, body) ==
    [type |-> "IfSt", condition |-> condition, body |-> body]
FnDef(ret_type, name, param_type, param_name, body) ==
    [type |-> "FnDef", return_type |-> ret_type, name |-> name,
     param_type |-> param_type, param_name |-> param_name, body |-> body]
Program(body) == [type |-> "Program", body |-> body]

(***************************************************************************)
(* class Lexer.  The text is a sequence of one-character strings; a lexer  *)
(* lx is the record of this.pos, this.line and this.col (pos counts from   *)
(* 0, so the character at pos is text[pos + 1]).  An operator that         *)
(* advances the lexer returns the new lexer along with its result.         *)
(***************************************************************************)
NoChar == "<undefined>"
SymbolChars == {"(", ")", "{", "}", ";", "<", "*", "-"}
DigitChars == {"0", "1", "2", "3", "4", "5", "6", "7", "8", "9"}
LowerChars == {"a", "b", "c", "d", "e", "f", "g", "h", "i", "j", "k", "l", "m",
               "n", "o", "p", "q", "r", "s", "t", "u", "v", "w", "x", "y", "z"}
UpperChars == {"A", "B", "C", "D", "E", "F", "G", "H", "I", "J", "K", "L", "M",
               "N", "O", "P", "Q", "R", "S", "T", "U", "V", "W", "X", "Y", "Z"}
WhitespaceChars == {" ", "\n", "\t"}
DigitValue(ch) ==
    CASE ch = "0" -> 0 [] ch = "1" -> 1 [] ch = "2" -> 2 [] ch = "3" -> 3
      [] ch = "4" -> 4 [] ch = "5" -> 5 [] ch = "6" -> 6 [] ch = "7" -> 7
      [] ch = "8" -> 8 [] ch = "9" -> 9

Lexer(text) == [pos |-> 0, line |-> 1, col |-> 1]

Lexer_atEnd(text, lx) == lx.pos >= Len(text)
Lexer_peek(text, lx) ==
    IF lx.pos < Len(text) THEN text[lx.pos + 1] ELSE NoChar
\* eat(): the lexer after it; the character returned is Lexer_peek before.
Lexer_eat(lx) == [lx EXCEPT !.col = @ + 1, !.pos = @ + 1]

Lexer_isNumber(text, lx) ==
    IF Lexer_atEnd(text, lx) THEN FALSE
    ELSE Lexer_peek(text, lx) \in DigitChars

\* parseInt(number, 10) of a run of decimal digits.
RECURSIVE parseInt(_)
parseInt(digits) ==
    IF Len(digits) = 0 THEN 0
    ELSE 10 * parseInt(SubSeq(digits, 1, Len(digits) - 1))
         + DigitValue(digits[Len(digits)])

RECURSIVE Lexer_scanNumberLoop(_, _, _)
Lexer_scanNumberLoop(text, lx, number) ==
    IF Lexer_isNumber(text, lx)
    THEN Lexer_scanNumberLoop(text, Lexer_eat(lx),
                              Append(number, Lexer_peek(text, lx)))
    ELSE [value |-> parseInt(number), lx |-> lx]
Lexer_scanNumber(text, lx) ==
    Lexer_scanNumberLoop(text, Lexer_eat(lx), <<Lexer_peek(text, lx)>>)

Lexer_isIdent(text, lx) ==
    IF Lexer_atEnd(text, lx) THEN FALSE
    ELSE Lexer_peek(text, lx) \in LowerChars \cup UpperChars

RECURSIVE Lexer_scanIdentLoop(_, _, _)
Lexer_scanIdentLoop(text, lx, ident) ==
    IF Lexer_isIdent(text, lx)
    THEN Lexer_scanIdentLoop(text, Lexer_eat(lx),
                             ident \o Lexer_peek(text, lx))
    ELSE [value |-> ident, lx |-> lx]
Lexer_scanIdent(text, lx) ==
    Lexer_scanIdentLoop(text, Lexer_eat(lx), Lexer_peek(text, lx))

RECURSIVE Lexer_eatWhitespace(_, _)
Lexer_eatWhitespace(text, lx) ==
    IF ~Lexer_atEnd(text, lx) /\ Lexer_peek(text, lx) \in WhitespaceChars
    THEN Lexer_eatWhitespace(text,
             Lexer_eat(IF Lexer_peek(text, lx) = "\n"
                       THEN [lx EXCEPT !.line = @ + 1, !.col = 0]
                       ELSE lx))
    ELSE lx

\* emit(token): the token with the position of the lexer.  A number token
\* holds its value in num, every other token in value.
Token(type, value, num, lx) ==
    [type |-> type, value |-> value, num |-> num,
     line |-> lx.line, col |-> lx.col]

\* next(): the token (of type "LexingError" when next throws) and the lexer
\* after it.
Lexer_next(text, lx0) ==
    LET lx == Lexer_eatWhitespace(text, lx0)
        ch == Lexer_peek(text, lx)
    IN  IF Lexer_atEnd(text, lx)
        THEN [tok |-> Token("eof", "eof", 0, lx), lx |-> lx]
        ELSE IF ch \in SymbolChars
        THEN [tok |-> Token("symbol", ch, 0, Lexer_eat(lx)),
              lx |-> Lexer_eat(lx)]
        ELSE IF Lexer_isNumber(text, lx)
        THEN LET r == Lexer_scanNumber(text, lx)
             IN  [tok |-> Token("number", NoChar, r.value, r.lx),
                  lx |-> r.lx]
        ELSE IF Lexer_isIdent(text, lx)
        THEN LET r == Lexer_scanIdent(text, lx)
                 type == IF r.value \in {"if", "return"}
                         THEN "keyword" ELSE "ident"
             IN  [tok |-> Token(type, r.value, 0, r.lx), lx |-> r.lx]
        ELSE [tok |-> Token("LexingError", ch, 0, lx), lx |-> lx]

\* Errors (LexingError, ParserError, InterpreterError, assertion errors and
\* JavaScript's TypeError), by kind and by the name or place they are about.
Err(kind, name) == [kind |-> kind, name |-> name]
NoErr == Err("none", NullName)

(***************************************************************************)
(* parse(lexer).  Every function of the parser returns a record: ok tells  *)
(* whether it returned (val is its value) or threw (val is the error), and *)
(* lx is the lexer after it.                                               *)
(***************************************************************************)
Ok(val, lx) == [ok |-> TRUE, val |-> val, lx |-> lx]
Fail(e, lx) == [ok |-> FALSE, val |-> e, lx |-> lx]
\* A statement that binds the value v and goes on with K.
With(v, K(_)) == K(v)
\* A call that returned goes on with K; one that threw throws on.
Then(r, K(_)) == IF r.ok THEN K(r) ELSE r
\* The error met at a token: the LexingError that next threw, or else the
\* ParserError of the caller.
TokenError(tok, message) ==
    IF tok.type = "LexingError" THEN Err("LexingError", tok.value)
    ELSE Err("ParserError", message)

parse_ident(text, lx) ==
    With(Lexer_next(text, lx), LAMBDA n :
        IF n.tok.type # "ident"
        THEN Fail(TokenError(n.tok, "Expected ident"), n.lx)
        ELSE Ok(n.tok.value, n.lx))

\* peek(): the character after the whitespace, and the lexer there.
parse_peek(text, lx) ==
    With(Lexer_eatWhitespace(text, lx), LAMBDA l :
        [ch |-> Lexer_peek(text, l), lx |-> l])

\* eat(terminal, { value: value })
parse_eat(text, lx, terminal, value) ==
    With(Lexer_next(text, lx), LAMBDA n :
        IF n.tok.type = "LexingError" \/ n.tok.value # value
        THEN Fail(TokenError(n.tok, "failed to parse " \o terminal), n.lx)
        ELSE Ok(n.tok, n.lx))

RECURSIVE parse_expr(_, _)
RECURSIVE parse_arithExpr(_, _, _)
RECURSIVE parse_fnCallWithName(_, _, _)

parse_arithExpr(text, lx, first_tok) ==
    With(Lexer_next(text, lx), LAMBDA n :
        IF n.tok.type = "LexingError" \/ n.tok.value \notin {"*", "-", "<"}
        THEN Fail(TokenError(n.tok, "Expected operation"), n.lx)
        ELSE Then(parse_expr(text, n.lx), LAMBDA right :
                 Ok(ArithExpr(first_tok, n.tok.value, right.val), right.lx)))

parse_expr(text, lx) ==
    With(Lexer_next(text, lx), LAMBDA n :
        IF n.tok.type \notin {"ident", "number"}
        THEN Fail(TokenError(n.tok, "Expected expr"), n.lx)
        ELSE With(parse_peek(text, n.lx), LAMBDA pk :
                 IF n.tok.type = "ident" /\ pk.ch = "("
                 THEN parse_fnCallWithName(text, pk.lx, n.tok.value)
                 ELSE IF pk.ch \in {"*", "-", "<"}
                 THEN parse_arithExpr(text, pk.lx,
                          IF n.tok.type = "number" THEN Number(n.tok.num)
                          ELSE Ident(n.tok.value))
                 ELSE Ok(IF n.tok.type = "number" THEN Number(n.tok.num)
                         ELSE Ident(n.tok.value), pk.lx)))

parse_fnCallWithName(text, lx, name) ==
    Then(parse_eat(text, lx, "FnCall", "("), LAMBDA open :
    Then(parse_expr(text, open.lx), LAMBDA arg :
    Then(parse_eat(text, arg.lx, "FnCall", ")"), LAMBDA close :
        Ok(FnCall(name, arg.val), close.lx))))

parse_returnSt(text, lx) ==
    Then(parse_expr(text, lx), LAMBDA value :
    Then(parse_eat(text, value.lx, "ReturnSt", ";"), LAMBDA semi :
        Ok(ReturnSt(value.val), semi.lx)))

RECURSIVE parse_until(_, _, _, _)
RECURSIVE parse_ifSt(_, _)
RECURSIVE parse_statement(_, _)

\* until(ch, statement), with the results so far.
parse_until(text, lx, ch, results) ==
    With(parse_peek(text, lx), LAMBDA pk :
        IF pk.ch # ch
        THEN Then(parse_statement(text, pk.lx), LAMBDA st :
                 parse_until(text, st.lx, ch, Append(results, st.val)))
        ELSE Ok(results, pk.lx))

parse_ifSt(text, lx) ==
    Then(parse_eat(text, lx, "IfSt", "("), LAMBDA open :
    Then(parse_expr(text, open.lx), LAMBDA condition :
    Then(parse_eat(text, condition.lx, "IfSt", ")"), LAMBDA close :
    Then(parse_eat(text, close.lx, "IfSt", "{"), LAMBDA lbrace :
    Then(parse_until(text, lbrace.lx, "}", <<>>), LAMBDA body :
    Then(parse_eat(text, body.lx, "IfSt", "}"), LAMBDA rbrace :
        Ok(IfSt(condition.val, body.val), rbrace.lx)))))))

parse_statement(text, lx) ==
    With(Lexer_next(text, lx), LAMBDA n :
        IF n.tok.type \notin {"keyword", "ident"}
        THEN Fail(TokenError(n.tok, "expected statement"), n.lx)
        ELSE IF n.tok.value = "if" THEN parse_ifSt(text, n.lx)
        ELSE IF n.tok.value = "return" THEN parse_returnSt(text, n.lx)
        ELSE Then(parse_fnCallWithName(text, n.lx, n.tok.value), LAMBDA st :
             Then(parse_eat(text, st.lx, "St", ";"), LAMBDA semi :
                 Ok(st.val, semi.lx))))

\* The parameter of fnDef: null and null, or the two idents when the next
\* character is not ')'.
parse_fnDefParam(text, lx) ==
    With(parse_peek(text, lx), LAMBDA pk :
        IF pk.ch # ")"
        THEN Then(parse_ident(text, pk.lx), LAMBDA param_type :
             Then(parse_ident(text, param_type.lx), LAMBDA param_name :
                 Ok([param_type |-> param_type.val,
                     param_name |-> param_name.val], param_name.lx)))
        ELSE Ok([param_type |-> NullName, param_name |-> NullName], pk.lx))

parse_fnDef(text, lx) ==
    Then(parse_ident(text, lx), LAMBDA ret_type :
    Then(parse_ident(text, ret_type.lx), LAMBDA name :
    Then(parse_eat(text, name.lx, "FnDef", "("), LAMBDA open :
    Then(parse_fnDefParam(text, open.lx), LAMBDA param :
    Then(parse_eat(text, param.lx, "FnDef", ")"), LAMBDA close :
    Then(parse_eat(text, close.lx, "FnDef", "{"), LAMBDA lbrace :
    Then(parse_until(text, lbrace.lx, "}", <<>>), LAMBDA body :
    Then(parse_eat(text, body.lx, "FnDef", "}"), LAMBDA rbrace :
        Ok(FnDef(ret_type.val, name.val, param.val.param_type,
                 param.val.param_name, body.val), rbrace.lx)))))))))

\* program(), with the body so far.
RECURSIVE parse_program(_, _, _)
parse_program(text, lx, body) ==
    IF ~Lexer_atEnd(text, lx)
    THEN Then(parse_fnDef(text, lx), LAMBDA def :
             parse_program(text, def.lx, Append(body, def.val)))
    ELSE Ok(Program(body), lx)

parse(text) == parse_program(text, Lexer(text), <<>>)

(***************************************************************************)
(* Run-time values and bindings.                                           *)
(***************************************************************************)
\* A JavaScript number that holds an integer: the integer n and the sign
\* bit neg, which tells -0 (that 0 * -5 and -1 * 0 give) from 0.
Num(n) == [n |-> n, neg |-> n < 0]
NegZero == [n |-> 0, neg |-> TRUE]
\* leftValue * rightValue: the sign of a product is the signs' difference,
\* also when the product is zero.
Times(a, b) == [n |-> a.n * b.n, neg |-> a.neg # b.neg]
\* leftValue - rightValue: a zero difference is 0, except -0 - 0 = -0.
Minus(a, b) ==
    IF a.n - b.n # 0 THEN Num(a.n - b.n)
    ELSE IF a = NegZero /\ b = Num(0) THEN NegZero
    ELSE Num(0)
\* The decimal digits of a natural number, as a string.
RECURSIVE NatString(_)
NatString(n) ==
    LET d == CHOOSE c \in DigitChars : DigitValue(c) = n % 10 IN
        IF n < 10 THEN d ELSE NatString(n \div 10) \o d
\* The line that console.log writes for a number (-0 is written "-0") or
\* for a boolean.
formatNumber(v) == IF v.neg THEN "-" \o NatString(0 - v.n) ELSE NatString(v.n)
console_log(obj) ==
    IF obj.type = "bool" THEN (IF obj.value THEN "true" ELSE "false")
    ELSE formatNumber(obj.value)

IntValue(v) == [type |-> "int", value |-> v]
BoolValue(b) == [type |-> "bool", value |-> b]
\* The print built-in of the constructor: it declares no param_name, so the
\* argument is bound under the property name "undefined".
BuiltInPrint ==
    [type |-> "BuiltInFn", param_type |-> "int", param_name |-> "undefined"]
RootBindings == ("print" :> BuiltInPrint)
EmptyBindings == [nm \in {} |-> Undefined]

\* The names of letters that every object inherits from Object.prototype,
\* and the function that such a name yields; its type is undefined.
ObjectPrototypeNames ==
    {"constructor", "hasOwnProperty", "isPrototypeOf", "propertyIsEnumerable",
     "toLocaleString", "toString", "valueOf"}
InheritedFunction(name) ==
    [type |-> "<undefined>",
     jsfunction |-> IF name = "constructor" THEN "Object" ELSE name]

\* lookup as it would be if it returned undefined for an unbound name
\* instead of throwing.
lookup_ReturnsUndefined(name, scs, i) ==
    IF \E j \in 1..i : name \in DOMAIN scs[j]
    THEN LET j == CHOOSE j \in 1..i :
                     /\ name \in DOMAIN scs[j]
                     /\ \A h \in (j + 1)..i : name \notin DOMAIN scs[h]
         IN  [found |-> TRUE, level |-> j, binding |-> scs[j][name]]
    ELSE [found |-> TRUE, level |-> 1, binding |-> Undefined]

(***************************************************************************)
(* lookup(name, scope): the scope chain is scs[1] (root) .. scs[i], each   *)
(* scope's up being the one before it.  A scope's bindings are a plain     *)
(* object, so scope.bindings[name] of a name that every object inherits    *)
(* and the scope does not bind itself is the inherited function: lookup    *)
(* returns it from the scope it is asked in (level 0: no scope binds it).  *)
(***************************************************************************)
RECURSIVE lookup(_, _, _)
lookup(name, scs, i) ==
    IF name \in DOMAIN scs[i]
    THEN [found |-> TRUE, level |-> i, binding |-> scs[i][name]]
    ELSE IF name \in ObjectPrototypeNames
    THEN [found |-> TRUE, level |-> 0, binding |-> InheritedFunction(name)]
    ELSE IF i > 1
         THEN lookup(name, scs, i - 1)
         ELSE [found |-> FALSE, level |-> 0, binding |-> Undefined]

pushScope(scs) == Append(scs, EmptyBindings)
popScope(scs) == SubSeq(scs, 1, Len(scs) - 1)
\* define as it would be if it wrote the binding into the root scope.
define_IntoRoot(scs, name, binding) ==
    [scs EXCEPT ![1] = (name :> binding) @@ scs[1]]

\* this.scope.bindings[name] = binding
define(scs, name, binding) ==
    [scs EXCEPT ![Len(scs)] = (name :> binding) @@ scs[Len(scs)]]

\* checkType as it would be if a bool argument were accepted for an int
\* parameter.
checkType_CoercesBool(fnDef, argValue) ==
    IF fnDef.param_type = NullName /\ argValue # Undefined
    THEN "no arg expected"
    ELSE IF fnDef.param_type # NullName /\ argValue = Undefined
    THEN "no fn arg given"
    ELSE IF argValue = Undefined
    THEN "TypeError"
    ELSE IF /\ fnDef.param_type # argValue.type
            /\ ~(fnDef.param_type = "int" /\ argValue.type = "bool")
    THEN "type mismatch"
    ELSE "none"

(***************************************************************************)
(* checkType(fnDef, argValue): the error it throws, or "none".  Reading    *)
(* argValue.type of an undefined argValue is a JavaScript TypeError.       *)
(***************************************************************************)
checkType(fnDef, argValue) ==
    IF fnDef.param_type = NullName /\ argValue # Undefined
    THEN "no arg expected"
    ELSE IF fnDef.param_type # NullName /\ argValue = Undefined
    THEN "no fn arg given"
    ELSE IF argValue = Undefined
    THEN "TypeError"
    ELSE IF fnDef.param_type # argValue.type
    THEN "type mismatch"
    ELSE "none"

\* stack.pop(): the popped value (undefined on an empty array) and the rest.
popValue(stk) == IF Len(stk) = 0 THEN Undefined ELSE stk[Len(stk)]
popRest(stk) == IF Len(stk) = 0 THEN stk ELSE SubSeq(stk, 1, Len(stk) - 1)

\* applyOp as it would be if '*' fell through to the case of '-'.
applyOp_FallsThrough(op, leftValue, rightValue) ==
    IF op = "<" THEN BoolValue(leftValue.n < rightValue.n)
    ELSE IntValue(Minus(leftValue, rightValue))

\* The operators of visitArithExpr's switch.
applyOp(op, leftValue, rightValue) ==
    IF op = "<" THEN BoolValue(leftValue.n < rightValue.n)
    ELSE IF op = "*" THEN IntValue(Times(leftValue, rightValue))
    ELSE IntValue(Minus(leftValue, rightValue))
(***************************************************************************)
(* State.                                                                  *)
(***************************************************************************)
VARIABLES
    file,       \* the contents of the file named on the command line
    ast,        \* the Program that parse returned, handed to interpret
    scopes,     \* the scope chain; this.scope is the last, its up the one before
    stack,      \* this.stack, the operand stack
    ctl,        \* the JavaScript call stack, innermost frame last
    out,        \* the lines written by console.log
    status,     \* "running", "done" or "error" (an uncaught exception)
    err,        \* the uncaught exception
    nextAid,    \* history: the number given to the next visitFnCall activation
    returned,   \* history: the activations in which a return has been thrown
    lastLookup, \* history: the latest lookup
    lastDone,   \* history: the latest expression or statement that completed
    lastExit    \* history: the latest visitFnCall that completed

vars == <<file, ast, scopes, stack, ctl, out, status, err, nextAid, returned,
          lastLookup, lastDone, lastExit>>

Top == ctl[Len(ctl)]
Rest == SubSeq(ctl, 1, Len(ctl) - 1)
Running(fn) == status = "running" /\ Len(ctl) > 0 /\ Top.fn = fn

\* The visitFnCall activations that are live.
CallFrames(c) == {i \in DOMAIN c : c[i].fn = "visitFnCall"}
CallDepth == Cardinality(CallFrames(ctl))

\* An exception that nothing catches: every catch of visitFnCall rethrows
\* it (without popping the scope) and the process ends.
Raise(e) ==
    /\ status' = "error"
    /\ err' = e
    /\ ctl' = <<>>
    /\ UNCHANGED <<file, ast, scopes, out, nextAid, returned, lastExit>>

\* History of a lookup: where the name was found (level, 0 if nowhere), the
\* scope that was current (cur), and whether that scope (own) and the root
\* scope (root) bind the name.
NoLookup == [name |-> NullName, found |-> FALSE, level |-> 0, cur |-> 0,
             own |-> FALSE, root |-> FALSE]
LookupNote(name, r) ==
    [name |-> name, found |-> r.found, level |-> r.level, cur |-> Len(scopes),
     own |-> name \in DOMAIN scopes[Len(scopes)],
     root |-> name \in DOMAIN scopes[1]]
NoDone == [kind |-> "none", d0 |-> 0, d1 |-> 0]
Done(kind, d0, d1) == [kind |-> kind, d0 |-> d0, d1 |-> d1]
NoExit == [self |-> 0]

\* Frames.
VisitExprFrame(node, aid) == [fn |-> "visitExpr", node |-> node, aid |-> aid]
VisitStFrame(node, aid) == [fn |-> "visitSt", node |-> node, aid |-> aid]
ForEachFrame(sts, aid, isIf, d0) ==
    [fn |-> "forEach", sts |-> sts, i |-> 1, aid |-> aid, isIf |-> isIf,
     d0 |-> d0]
VisitFnCallFrame(node, aid, role) ==
    [fn |-> "visitFnCall", pc |-> "lookup", node |-> node, aid |-> aid,
     role |-> role, d0 |-> Len(stack), entry |-> scopes, self |-> nextAid,
     fnDef |-> Undefined, argValue |-> Undefined, thrown |-> FALSE,
     value |-> Undefined]

(***************************************************************************)
(* The text of the README program, for an argument k, written as in the    *)
(* statement of its expected output:                                       *)
(*   int fact(int n){ if(n<1){return 1;} return n*fact(n-1); }             *)
(*   void main(){ print(fact(k)); }                                        *)
(* and the program that parse makes of it.                                 *)
(***************************************************************************)
RECURSIVE ToDigits(_)
ToDigits(n) ==
    LET d == CHOOSE c \in DigitChars : DigitValue(c) = n % 10 IN
        IF n < 10 THEN <<d>> ELSE Append(ToDigits(n \div 10), d)

FactHead ==
    <<"i", "n", "t", " ", "f", "a", "c", "t", "(", "i", "n", "t", " ", "n",
      ")", "{", " ", "i", "f", "(", "n", "<", "1", ")", "{", "r", "e", "t",
      "u", "r", "n", " ", "1", ";", "}", " ", "r", "e", "t", "u", "r", "n",
      " ", "n", "*", "f", "a", "c", "t", "(", "n", "-", "1", ")", ";", " ",
      "}", " ", "v", "o", "i", "d", " ", "m", "a", "i", "n", "(", ")", "{",
      " ", "p", "r", "i", "n", "t", "(", "f", "a", "c", "t", "(">>
FactTail == <<")", ")", ";", " ", "}">>
FactText(k) == FactHead \o ToDigits(k) \o FactTail \o <<"\n">>

FactProgram(k) == Program(<<
    FnDef("int", "fact", "int", "n", <<
        IfSt(ArithExpr(Ident("n"), "<", Number(1)), <<ReturnSt(Number(1))>>),
        ReturnSt(ArithExpr(Ident("n"), "*",
            FnCall("fact", ArithExpr(Ident("n"), "-", Number(1)))))>>),
    FnDef("void", "main", NullName, NullName, <<
        FnCall("print", FnCall("fact", Number(k)))>>)>>)

(***************************************************************************)
(* The programs that are run: the README program, and every program made   *)
(* of a function f (parameter n), a function g (parameter x, or none) and  *)
(* a main, with bodies drawn from the pools below; and the same without a  *)
(* main.  Every node has the shape parse() builds: a call carries one      *)
(* argument expression, the left operand of an ArithExpr is a number or an *)
(* ident token.                                                            *)
(***************************************************************************)
Lits == {Number(i) : i \in 0..MaxLit}
True == ArithExpr(Number(0), "<", Number(1))

FBodies == {
    <<>>,
    <<ReturnSt(Ident("n"))>>,
    <<ReturnSt(Ident("print"))>>,
    <<ReturnSt(Ident("x"))>>,
    <<ReturnSt(FnCall("g", Ident("n")))>>,
    <<IfSt(ArithExpr(Ident("n"), "<", Number(1)), <<ReturnSt(Number(1))>>),
      ReturnSt(ArithExpr(Ident("n"), "*",
          FnCall("f", ArithExpr(Ident("n"), "-", Number(1)))))>>,
    <<IfSt(True, <<IfSt(True, <<ReturnSt(Ident("n"))>>),
                   FnCall("print", Number(0))>>),
      FnCall("print", Number(1))>>,
    <<FnCall("g", ArithExpr(Ident("n"), "-", Number(1))),
      ReturnSt(Ident("n"))>>,
    <<IfSt(Ident("n"), <<>>), ReturnSt(Number(0))>>,
    <<ReturnSt(ArithExpr(Number(1), "-", FnCall("g", Ident("n"))))>>
    }
FDefs == {FnDef("int", "f", pt, "n", b) : pt \in {"int", "bool"},
                                         b \in FBodies}

GBodies == {
    <<>>,
    <<ReturnSt(Ident("x"))>>,
    <<ReturnSt(Ident("n"))>>,
    <<FnCall("print", Ident("n"))>>,
    <<ReturnSt(ArithExpr(Ident("x"), "<", Number(1)))>>,
    <<IfSt(ArithExpr(Number(0), "<", Ident("x")),
           <<FnCall("g", ArithExpr(Ident("x"), "-", Number(1)))>>),
      FnCall("print", Ident("x"))>>
    }
GDefs == {FnDef("void", "g", "int", "x", b) : b \in GBodies}
         \cup {FnDef("void", "g", NullName, NullName, <<>>)}

MainSts ==
    {FnCall("print", l) : l \in Lits}
    \cup {FnCall("f", l) : l \in Lits}
    \cup {FnCall("print", FnCall("f", l)) : l \in Lits}
    \cup {FnCall("g", Number(1)),
          FnCall("print", FnCall("g", Number(1))),
          FnCall("print", Ident("x")),
          FnCall("print", Ident("print")),
          FnCall("f", True),
          FnCall("n", Number(1)),
          IfSt(FnCall("f", Number(1)), <<FnCall("print", Number(1))>>),
          IfSt(True, <<ReturnSt(Number(1))>>)}
MainSts2 == {FnCall("print", Number(1)),
             FnCall("print", FnCall("g", Number(1))),
             FnCall("f", Number(1)),
             FnCall("print", FnCall("f", Number(1)))}
MainBodies == {<<>>} \cup {<<a>> : a \in MainSts}
              \cup {<<a, b>> : a \in MainSts, b \in MainSts2}
MainDefs == {FnDef("void", "main", NullName, NullName, b) : b \in MainBodies}

\* Programs that multiply into -0, and programs that use a name that every
\* object inherits.
OtherPrograms ==
    { Program(<<FnDef("void", "main", NullName, NullName,
          <<FnCall("print", ArithExpr(Number(0), "*",
                ArithExpr(Number(0), "-", Number(1))))>>)>>),
      Program(<<FnDef("int", "f", "int", "n",
                      <<ReturnSt(ArithExpr(Ident("n"), "*", Number(0)))>>),
                FnDef("void", "main", NullName, NullName,
          <<FnCall("print", FnCall("f",
                ArithExpr(Number(0), "-", Number(1))))>>)>>),
      Program(<<FnDef("void", "main", NullName, NullName,
          <<FnCall("toString", Number(1))>>)>>),
      Program(<<FnDef("int", "toString", "int", "n",
                      <<ReturnSt(Ident("n"))>>),
                FnDef("void", "main", NullName, NullName,
          <<FnCall("print", FnCall("toString", Number(1)))>>)>>) }

Programs ==
    {Program(<<f, g, m>>) : f \in FDefs, g \in GDefs, m \in MainDefs}
    \cup {Program(<<f, g>>) : f \in FDefs, g \in GDefs}
    \cup {Program(<<>>),
          Program(<<FnDef("void", "main", "int", "n", <<>>)>>)}
    \cup OtherPrograms

(***************************************************************************)
(* The text of a program: its tokens, with one space between two tokens    *)
(* that would otherwise lex as one.                                        *)
(***************************************************************************)
Chars(word) == [i \in 1..Len(word) |-> SubSeq(word, i, i)]

RECURSIVE ExprTokens(_)
ExprTokens(e) ==
    CASE e.type = "number" -> <<ToDigits(e.value)>>
      [] e.type = "ident" -> <<Chars(e.value)>>
      [] e.type = "FnCall" ->
            <<Chars(e.name), <<"(">> >> \o ExprTokens(e.arg) \o << <<")">> >>
      [] e.type = "ArithExpr" ->
            ExprTokens(e.left) \o << <<e.op>> >> \o ExprTokens(e.right)

RECURSIVE BodyTokens(_)
StTokens(st) ==
    CASE st.type = "IfSt" ->
            <<Chars("if"), <<"(">> >> \o ExprTokens(st.condition)
            \o << <<")">>, <<"{">> >> \o BodyTokens(st.body) \o << <<"}">> >>
      [] st.type = "ReturnSt" ->
            <<Chars("return")>> \o ExprTokens(st.value) \o << <<";">> >>
      [] st.type = "FnCall" -> ExprTokens(st) \o << <<";">> >>
BodyTokens(sts) ==
    IF Len(sts) = 0 THEN <<>>
    ELSE StTokens(sts[1]) \o BodyTokens(Tail(sts))

FnDefTokens(d) ==
    <<Chars(d.return_type), Chars(d.name), <<"(">> >>
    \o (IF d.param_type = NullName THEN <<>>
        ELSE <<Chars(d.param_type), Chars(d.param_name)>>)
    \o << <<")">>, <<"{">> >> \o BodyTokens(d.body) \o << <<"}">> >>

RECURSIVE ProgramTokens(_)
ProgramTokens(defs) ==
    IF Len(defs) = 0 THEN <<>>
    ELSE FnDefTokens(defs[1]) \o ProgramTokens(Tail(defs))

IsWord(token) == token[1] \notin SymbolChars
RECURSIVE Join(_)
Join(tokens) ==
    IF Len(tokens) = 0 THEN <<>>
    ELSE IF Len(tokens) = 1 THEN tokens[1]
    ELSE tokens[1]
         \o (IF IsWord(tokens[1]) /\ IsWord(tokens[2]) THEN <<" ">> ELSE <<>>)
         \o Join(Tail(tokens))
TextOf(program) == Join(ProgramTokens(program.body))

\* Two files that are no program: one stops the parser, one the lexer.
MalformedFiles == {<<"i", "n", "t", "\n">>, <<"i", "n", "t", " ", "$">>}

\* The files that are run: the README program, the texts of Programs, some
\* of them after a byte order mark and between Windows line ends and white
\* space outside ASCII, and the malformed files.
Files == {FactText(k) : k \in 0..MaxK} \cup {TextOf(p) : p \in Programs}
         \cup {<<"\\ufeff", "\r", "\n">> \o TextOf(p)
                   \o <<"\\u3000", "\r", "\n">> : p \in OtherPrograms}
         \cup MalformedFiles

(***************************************************************************)
(* String.prototype.trim strips the white space and the line terminators   *)
(* of JavaScript, 25 characters: U+0009..U+000D, the space, and 19         *)
(* characters outside ASCII.  A character outside ASCII is written in a    *)
(* text as the one element that spells its escape (U+00A0 is the element   *)
(* "\\u00a0"), so that a text reads the same in every encoding of this     *)
(* module.                                                                 *)
(***************************************************************************)
TrimChars ==
    {"\t", "\n", "", "\f", "\r", " ",
     "\\u00a0", "\\u1680", "\\u2000", "\\u2001", "\\u2002", "\\u2003",
     "\\u2004", "\\u2005", "\\u2006", "\\u2007", "\\u2008", "\\u2009",
     "\\u200a", "\\u2028", "\\u2029", "\\u202f", "\\u205f", "\\u3000",
     "\\ufeff"}
RECURSIVE trimStart(_)
trimStart(text) ==
    IF Len(text) > 0 /\ text[1] \in TrimChars
    THEN trimStart(Tail(text)) ELSE text
RECURSIVE trimEnd(_)
trimEnd(text) ==
    IF Len(text) > 0 /\ text[Len(text)] \in TrimChars
    THEN trimEnd(SubSeq(text, 1, Len(text) - 1)) ELSE text
trim(text) == trimEnd(trimStart(text))

Init ==
    /\ file \in Files
    /\ ast = Null
    /\ scopes = <<>>
    /\ stack = <<>>
    /\ ctl = <<[fn |-> "main"]>>
    /\ out = <<>>
    /\ status = "running"
    /\ err = NoErr
    /\ nextAid = 1
    /\ returned = {}
    /\ lastLookup = NoLookup
    /\ lastDone = NoDone
    /\ lastExit = NoExit

(***************************************************************************)
(* main(): the text of the file, trimmed, is parsed; an error of the lexer *)
(* or of the parser ends the process.                                      *)
(***************************************************************************)
Main ==
    /\ Running("main")
    /\ LET r == parse(trim(file)) IN
        IF r.ok
        THEN /\ ast' = r.val
             /\ ctl' = <<[fn |-> "interpret"]>>
             /\ UNCHANGED <<status, err>>
        ELSE /\ status' = "error"
             /\ err' = r.val
             /\ ctl' = <<>>
             /\ UNCHANGED ast
    /\ UNCHANGED <<file, scopes, stack, out, nextAid, returned, lastLookup,
                   lastDone, lastExit>>

(***************************************************************************)
(* interpret(ast): appends the call of main, constructs the Interpreter    *)
(* and starts visit.                                                       *)
(***************************************************************************)
Interpret ==
    /\ Running("interpret")
    /\ ast' = [ast EXCEPT !.body = Append(@, FnCall("main", Null))]
    /\ scopes' = <<RootBindings>>
    /\ stack' = <<>>
    /\ ctl' = <<[fn |-> "visit", i |-> 1]>>
    /\ UNCHANGED <<file, out, status, err, nextAid, returned,
                   lastLookup, lastDone, lastExit>>

(***************************************************************************)
(* visit(ast, visitor): one turn of the forEach over ast.body.             *)
(***************************************************************************)
VisitFnDef ==
    /\ Running("visit")
    /\ Top.i <= Len(ast.body)
    /\ ast.body[Top.i].type = "FnDef"
    /\ scopes' = define(scopes, ast.body[Top.i].name, ast.body[Top.i])
    /\ ctl' = Append(Rest, [Top EXCEPT !.i = @ + 1])
    /\ UNCHANGED <<file, ast, stack, out, status, err, nextAid, returned,
                   lastLookup, lastDone, lastExit>>

VisitTopFnCall ==
    /\ Running("visit")
    /\ Top.i <= Len(ast.body)
    /\ ast.body[Top.i].type = "FnCall"
    /\ CallDepth < MaxDepth
    /\ ctl' = Append(Append(Rest, [Top EXCEPT !.i = @ + 1]),
                     VisitFnCallFrame(ast.body[Top.i], 0, "top"))
    /\ nextAid' = nextAid + 1
    /\ UNCHANGED <<file, ast, scopes, stack, out, status, err, returned,
                   lastLookup, lastDone, lastExit>>

VisitEnd ==
    /\ Running("visit")
    /\ Top.i > Len(ast.body)
    /\ status' = "done"
    /\ ctl' = <<>>
    /\ UNCHANGED <<file, ast, scopes, stack, out, err, nextAid, returned,
                   lastLookup, lastDone, lastExit>>

(***************************************************************************)
(* visitExpr(expr).                                                        *)
(***************************************************************************)
VisitExprNumber ==
    /\ Running("visitExpr")
    /\ Top.node.type = "number"
    /\ stack' = Append(stack, IntValue(Num(Top.node.value)))
    /\ ctl' = Rest
    /\ lastDone' = Done("expr", Len(stack), Len(stack'))
    /\ UNCHANGED <<file, ast, scopes, out, status, err, nextAid, returned,
                   lastLookup, lastExit>>

VisitExprIdent ==
    /\ Running("visitExpr")
    /\ Top.node.type = "ident"
    /\ LET r == lookup(Top.node.value, scopes, Len(scopes)) IN
        /\ lastLookup' = LookupNote(Top.node.value, r)
        /\ IF ~r.found
           THEN /\ Raise(Err("unbound", Top.node.value))
                /\ UNCHANGED <<stack, lastDone>>
           ELSE /\ stack' = Append(stack, r.binding)
                /\ ctl' = Rest
                /\ lastDone' = Done("expr", Len(stack), Len(stack'))
                /\ UNCHANGED <<file, ast, scopes, out, status, err, nextAid,
                               returned, lastExit>>

VisitExprFnCall ==
    /\ Running("visitExpr")
    /\ Top.node.type = "FnCall"
    /\ CallDepth < MaxDepth
    /\ ctl' = Append(Rest, VisitFnCallFrame(Top.node, Top.aid, "expr"))
    /\ nextAid' = nextAid + 1
    /\ UNCHANGED <<file, ast, scopes, stack, out, status, err, returned,
                   lastLookup, lastDone, lastExit>>

(***************************************************************************)
(* visitArithExpr(expr): the left operand, then visitExpr(expr.right).     *)
(***************************************************************************)
VisitArithExpr ==
    /\ Running("visitExpr")
    /\ Top.node.type = "ArithExpr"
    /\ LET left == Top.node.left
           r == lookup(left.value, scopes, Len(scopes))
           goOn(leftValue) ==
               /\ ctl' = Append(Append(Rest,
                       [fn |-> "visitArithExpr", node |-> Top.node,
                        leftValue |-> leftValue, aid |-> Top.aid,
                        d0 |-> Len(stack)]),
                       VisitExprFrame(Top.node.right, Top.aid))
               /\ UNCHANGED <<file, ast, scopes, out, status, err, nextAid,
                              returned, lastExit>>
       IN
        /\ UNCHANGED <<stack, lastDone>>
        /\ IF left.type = "number"
           THEN goOn(Num(left.value)) /\ UNCHANGED lastLookup
           ELSE IF left.type = "ident"
           THEN /\ lastLookup' = LookupNote(left.value, r)
                /\ IF ~r.found
                   THEN Raise(Err("unbound", left.value))
                   ELSE IF r.binding.type # "int"
                   THEN Raise(Err("bad binding", left.value))
                   ELSE goOn(r.binding.value)
           ELSE Raise(Err("bad left", NullName)) /\ UNCHANGED lastLookup

\* After visitExpr(expr.right): pop the right operand and push the result.
VisitArithExprApply ==
    /\ Running("visitArithExpr")
    /\ LET right == popValue(stack) IN
        /\ UNCHANGED lastLookup
        /\ IF right = Undefined
           THEN /\ Raise(Err("TypeError", "visitArithExpr"))
                /\ stack' = popRest(stack)
                /\ UNCHANGED lastDone
           ELSE IF right.type # "int"
           THEN /\ Raise(Err("assertion error", "bad right"))
                /\ stack' = popRest(stack)
                /\ UNCHANGED lastDone
           ELSE /\ stack' = Append(popRest(stack),
                       applyOp(Top.node.op, Top.leftValue, right.value))
                /\ ctl' = Rest
                /\ lastDone' = Done("expr", Top.d0, Len(stack'))
                /\ UNCHANGED <<file, ast, scopes, out, status, err, nextAid,
                               returned, lastExit>>
(***************************************************************************)
(* forEach((st) => this.visitSt(st)) over the body of a function or of an  *)
(* if statement.                                                           *)
(***************************************************************************)
ForEachNext ==
    /\ Running("forEach")
    /\ Top.i <= Len(Top.sts)
    /\ ctl' = Append(Append(Rest, [Top EXCEPT !.i = @ + 1]),
                     VisitStFrame(Top.sts[Top.i], Top.aid))
    /\ UNCHANGED <<file, ast, scopes, stack, out, status, err, nextAid, returned,
                   lastLookup, lastDone, lastExit>>

ForEachEnd ==
    /\ Running("forEach")
    /\ Top.i > Len(Top.sts)
    /\ ctl' = Rest
    /\ lastDone' = IF Top.isIf THEN Done("st", Top.d0, Len(stack))
                   ELSE lastDone
    /\ UNCHANGED <<file, ast, scopes, stack, out, status, err, nextAid, returned,
                   lastLookup, lastExit>>

(***************************************************************************)
(* visitSt(st) and the statements.                                         *)
(***************************************************************************)
VisitIfSt ==
    /\ Running("visitSt")
    /\ Top.node.type = "IfSt"
    /\ ctl' = Append(Append(Rest,
                 [fn |-> "visitIfSt", node |-> Top.node, aid |-> Top.aid,
                  d0 |-> Len(stack)]),
                 VisitExprFrame(Top.node.condition, Top.aid))
    /\ UNCHANGED <<file, ast, scopes, stack, out, status, err, nextAid, returned,
                   lastLookup, lastDone, lastExit>>

\* After visitExpr(ifSt.condition).
VisitIfStCondition ==
    /\ Running("visitIfSt")
    /\ LET condition == popValue(stack) IN
        /\ stack' = popRest(stack)
        /\ UNCHANGED lastLookup
        /\ IF condition = Undefined
           THEN Raise(Err("TypeError", "visitIfSt")) /\ UNCHANGED lastDone
           ELSE IF condition.type # "bool"
           THEN Raise(Err("if condition not bool", NullName))
                /\ UNCHANGED lastDone
           ELSE /\ IF condition.value
                   THEN /\ ctl' = Append(Rest, ForEachFrame(Top.node.body,
                                       Top.aid, TRUE, Top.d0))
                        /\ UNCHANGED lastDone
                   ELSE /\ ctl' = Rest
                        /\ lastDone' = Done("st", Top.d0, Len(stack'))
                /\ UNCHANGED <<file, ast, scopes, out, status, err, nextAid,
                               returned, lastExit>>

VisitReturnSt ==
    /\ Running("visitSt")
    /\ Top.node.type = "ReturnSt"
    /\ ctl' = Append(Append(Rest, [fn |-> "visitReturnSt", aid |-> Top.aid]),
                     VisitExprFrame(Top.node.value, Top.aid))
    /\ UNCHANGED <<file, ast, scopes, stack, out, status, err, nextAid, returned,
                   lastLookup, lastDone, lastExit>>

\* catchIndex as it would be if the return were caught by the outermost try
\* block instead of the innermost.
catchIndex_Outermost(c, i) ==
    IF \E j \in 1..i : c[j].fn = "visitFnCall" /\ c[j].pc = "body"
    THEN CHOOSE j \in 1..i :
             /\ c[j].fn = "visitFnCall" /\ c[j].pc = "body"
             /\ \A h \in 1..(j - 1) :
                    ~(c[h].fn = "visitFnCall" /\ c[h].pc = "body")
    ELSE 0

\* The innermost frame of c[1..i] that is inside the try block of
\* visitFnCall, or 0.
RECURSIVE catchIndex(_, _)
catchIndex(c, i) ==
    IF i = 0 THEN 0
    ELSE IF c[i].fn = "visitFnCall" /\ c[i].pc = "body" THEN i
    ELSE catchIndex(c, i - 1)

\* After visitExpr(returnSt.value): throw { type: 'ReturnValue', value }.
\* The catch of visitFnCall pushes err.value and goes on to popScope.
VisitReturnStThrow ==
    /\ Running("visitReturnSt")
    /\ LET value == popValue(stack)
           j == catchIndex(ctl, Len(ctl))
       IN
        /\ UNCHANGED <<lastLookup, lastDone>>
        /\ IF j = 0
           THEN /\ Raise(Err("ReturnValue", NullName))
                /\ stack' = popRest(stack)
           ELSE /\ stack' = Append(popRest(stack), value)
                /\ ctl' = Append(SubSeq(ctl, 1, j - 1),
                        [ctl[j] EXCEPT !.pc = "pop", !.thrown = TRUE,
                                       !.value = value])
                /\ returned' = returned \cup {Top.aid}
                /\ UNCHANGED <<file, ast, scopes, out, status, err, nextAid,
                               lastExit>>

VisitStFnCall ==
    /\ Running("visitSt")
    /\ Top.node.type = "FnCall"
    /\ CallDepth < MaxDepth
    /\ ctl' = Append(Rest, VisitFnCallFrame(Top.node, Top.aid, "st"))
    /\ nextAid' = nextAid + 1
    /\ UNCHANGED <<file, ast, scopes, stack, out, status, err, returned,
                   lastLookup, lastDone, lastExit>>

(***************************************************************************)
(* visitFnCall(fnCall).                                                    *)
(***************************************************************************)
\* lookup of the callee, the callable check, and visitExpr(fnCall.arg).
VisitFnCall ==
    /\ Running("visitFnCall")
    /\ Top.pc = "lookup"
    /\ LET r == lookup(Top.node.name, scopes, Len(scopes)) IN
        /\ lastLookup' = LookupNote(Top.node.name, r)
        /\ UNCHANGED <<stack, lastDone>>
        /\ IF ~r.found
           THEN Raise(Err("unbound", Top.node.name))
           ELSE IF r.binding.type \notin {"BuiltInFn", "FnDef"}
           THEN Raise(Err("not a function", Top.node.name))
           ELSE /\ ctl' =
                     LET f == [Top EXCEPT !.pc = "arg", !.fnDef = r.binding]
                     IN  IF Top.node.arg # Null
                         THEN Append(Append(Rest, f),
                                     VisitExprFrame(Top.node.arg, Top.aid))
                         ELSE Append(Rest, f)
                /\ UNCHANGED <<file, ast, scopes, out, status, err, nextAid,
                               returned, lastExit>>

\* argValue = this.stack.pop(), checkType, pushScope and the binding of the
\* parameter; then the body (inside try) or the built-in is next.
VisitFnCallEnter ==
    /\ Running("visitFnCall")
    /\ Top.pc = "arg"
    /\ LET fnCall == Top.node
           fnDef == Top.fnDef
           hasArg == fnCall.arg # Null
           argValue == IF hasArg THEN popValue(stack) ELSE Undefined
           e == IF hasArg \/ fnDef.param_type # NullName
                THEN checkType(fnDef, argValue) ELSE "none"
           pushed == IF hasArg
                     THEN define(pushScope(scopes), fnDef.param_name, argValue)
                     ELSE pushScope(scopes)
       IN
        /\ stack' = IF hasArg THEN popRest(stack) ELSE stack
        /\ UNCHANGED <<lastLookup, lastDone>>
        /\ IF e # "none"
           THEN Raise(Err(e, fnCall.name))
           ELSE /\ scopes' = pushed
                /\ ctl' =
                     IF fnDef.type = "FnDef"
                     THEN Append(Append(Rest,
                              [Top EXCEPT !.pc = "body",
                                          !.argValue = argValue]),
                              ForEachFrame(fnDef.body, Top.self, FALSE, 0))
                     ELSE Append(Rest, [Top EXCEPT !.pc = "native",
                                                   !.argValue = argValue])
                /\ UNCHANGED <<file, ast, out, status, err, nextAid, returned,
                               lastExit>>

\* fnDef.value(argValue) of print: console.log(obj.value).
VisitFnCallNative ==
    /\ Running("visitFnCall")
    /\ Top.pc = "native"
    /\ out' = Append(out, console_log(Top.argValue))
    /\ ctl' = Append(Rest, [Top EXCEPT !.pc = "pop"])
    /\ UNCHANGED <<file, ast, scopes, stack, status, err, nextAid, returned,
                   lastLookup, lastDone, lastExit>>

\* popScope, then the return value is popped and pushed again.
VisitFnCallExit ==
    /\ Running("visitFnCall")
    /\ Top.pc \in {"body", "pop"}
    /\ LET retVal == popValue(stack) IN
        /\ scopes' = popScope(scopes)
        /\ stack' = Append(popRest(stack), retVal)
        /\ ctl' = Rest
        /\ lastDone' = Done(Top.role, Top.d0, Len(stack'))
        /\ lastExit' = [self |-> Top.self, name |-> Top.node.name,
                        role |-> Top.role, fnType |-> Top.fnDef.type,
                        thrown |-> Top.thrown,
                        value |-> Top.value, result |-> retVal,
                        entry |-> Top.entry, after |-> scopes',
                        popped |-> scopes[Len(scopes)]]
    /\ UNCHANGED <<file, ast, out, status, err, nextAid, returned, lastLookup>>

Next ==
    \/ Main
    \/ Interpret
    \/ VisitFnDef
    \/ VisitTopFnCall
    \/ VisitEnd
    \/ VisitExprNumber
    \/ VisitExprIdent
    \/ VisitExprFnCall
    \/ VisitArithExpr
    \/ VisitArithExprApply
    \/ ForEachNext
    \/ ForEachEnd
    \/ VisitIfSt
    \/ VisitIfStCondition
    \/ VisitReturnSt
    \/ VisitReturnStThrow
    \/ VisitStFnCall
    \/ VisitFnCall
    \/ VisitFnCallEnter
    \/ VisitFnCallNative
    \/ VisitFnCallExit

Spec == Init /\ [][Next]_vars

(***************************************************************************)
(* parse(lexer) called on a Lexer of a buffer as it is, without the trim   *)
(* of main.  The buffers are the texts of a few programs, written with a   *)
(* run of whitespace before the first token, between every two tokens and  *)
(* after the last token.                                                   *)
(***************************************************************************)
Blanks == UNION {[1..n -> WhitespaceChars] : n \in 0..MaxBlank}

ParsePrograms ==
    { Program(<<FnDef("void", "f", NullName, NullName, <<>>)>>),
      Program(<<FnDef("int", "f", "int", "n", <<ReturnSt(Ident("n"))>>),
                FnDef("void", "main", NullName, NullName,
                      <<FnCall("print", FnCall("f", Number(1)))>>)>>),
      Program(<<FnDef("int", "g", "int", "x",
                      <<IfSt(ArithExpr(Ident("x"), "<", Number(1)),
                             <<ReturnSt(Number(1))>>),
                        ReturnSt(ArithExpr(Ident("x"), "*",
                                 FnCall("g", ArithExpr(Ident("x"), "-",
                                                       Number(1)))))>>)>>) }

\* The tokens with sep between every two of them (one space where two words
\* would otherwise run together).
RECURSIVE JoinWith(_, _)
JoinWith(tokens, sep) ==
    IF Len(tokens) = 0 THEN <<>>
    ELSE IF Len(tokens) = 1 THEN tokens[1]
    ELSE tokens[1]
         \o (IF sep = <<>> /\ IsWord(tokens[1]) /\ IsWord(tokens[2])
             THEN <<" ">> ELSE sep)
         \o JoinWith(Tail(tokens), sep)
Buffer(program, lead, sep, trail) ==
    lead \o JoinWith(ProgramTokens(program.body), sep) \o trail
Buffers ==
    {Buffer(p, lead, sep, trail) :
        p \in ParsePrograms, lead \in Blanks, sep \in Blanks, trail \in Blanks}

\* The text without its whitespace, and the program a buffer was written
\* from.
Unspaced(text) == SelectSeq(text, LAMBDA c : c \notin WhitespaceChars)
ProgramOf(text) ==
    CHOOSE p \in ParsePrograms : Unspaced(TextOf(p)) = Unspaced(text)

ParseInit ==
    /\ file \in Buffers
    /\ ast = Null
    /\ scopes = <<>>
    /\ stack = <<>>
    /\ ctl = <<[fn |-> "parse"]>>
    /\ out = <<>>
    /\ status = "running"
    /\ err = NoErr
    /\ nextAid = 1
    /\ returned = {}
    /\ lastLookup = NoLookup
    /\ lastDone = NoDone
    /\ lastExit = NoExit

\* parse(new Lexer(text)): the Program it returns, or the error it throws.
Parse ==
    /\ Running("parse")
    /\ LET r == parse(file) IN
        IF r.ok
        THEN /\ ast' = r.val
             /\ status' = "done"
             /\ UNCHANGED err
        ELSE /\ status' = "error"
             /\ err' = r.val
             /\ UNCHANGED ast
    /\ ctl' = <<>>
    /\ UNCHANGED <<file, scopes, stack, out, nextAid, returned, lastLookup,
                   lastDone, lastExit>>

ParseNext == Parse

ParseSpec == ParseInit /\ [][ParseNext]_vars

(***************************************************************************)
(* Properties.                                                             *)
(***************************************************************************)
RECURSIVE Factorial(_)
Factorial(k) == IF k = 0 THEN 1 ELSE k * Factorial(k - 1)

\* The definitions that parse returned (without the call that interpret
\* appends); none before parse has returned.
Source == IF ast = Null THEN <<>>
          ELSE IF Len(ctl) > 0 /\ Top.fn = "interpret" THEN ast.body
          ELSE SubSeq(ast.body, 1, Len(ast.body) - 1)
Parsed == ast # Null
IsFact(k) == file = FactText(k)
Defines(name) ==
    \E i \in DOMAIN Source : Source[i].type = "FnDef" /\ Source[i].name = name

\* The run has met the bound on live calls: the next step is a call that the
\* model does not follow.
CutOff ==
    /\ status = "running"
    /\ CallDepth >= MaxDepth
    /\ \/ Top.fn \in {"visitExpr", "visitSt"} /\ Top.node.type = "FnCall"
       \/ Top.fn = "visit" /\ Top.i <= Len(ast.body)
                           /\ ast.body[Top.i].type = "FnCall"

\* C1: the README program with argument k, 0 <= k <= MaxK, run through the
\* lexer, the parser and interpret, never raises an error, is never cut off,
\* writes at most one line, and when it is over it has written exactly one
\* line, k!.
C1_FactPrintsFactorial ==
    \A k \in 0..MaxK :
        IsFact(k) =>
            /\ status # "error"
            /\ ~CutOff
            /\ Len(out) <= 1
            /\ Len(out) = 1 => out[1] = formatNumber(Num(Factorial(k)))
            /\ status = "done" => out = <<formatNumber(Num(Factorial(k)))>>

\* fact(5) was parsed into the program of the README and printed 120.
C1_Witness ==
    /\ IsFact(5)
    /\ Source = FactProgram(5).body
    /\ status = "done"
    /\ out = <<"120">>
\* visitFnCall is about to pop the argument and check it.
AtCheck == Running("visitFnCall") /\ Top.pc = "arg"
ArgSupplied == Top.node.arg # Null
ParamDeclared == Top.fnDef.param_type # NullName
ArgMismatch ==
    \/ ArgSupplied /\ ~ParamDeclared
    \/ ~ArgSupplied /\ ParamDeclared
    \/ /\ ArgSupplied
       /\ ParamDeclared
       /\ \/ popValue(stack) = Undefined
          \/ popValue(stack).type # Top.fnDef.param_type

\* C2: when visitFnCall checks the argument of a call (of a user function or
\* of a built-in): on an argument without a parameter, a parameter without
\* an argument, or an argument whose type is not the parameter's, the call
\* ends in an error, with the scope chain and the output as they were and
\* no frame of the callee left; otherwise a scope is pushed and the callee's
\* body or callback is next, with nothing written yet.
C2_ArgumentChecked ==
    [][AtCheck =>
        IF ArgMismatch
        THEN /\ status' = "error"
             /\ err'.kind \in {"no arg expected", "no fn arg given",
                               "type mismatch", "TypeError"}
             /\ scopes' = scopes
             /\ out' = out
             /\ ctl' = <<>>
        ELSE /\ status' = "running"
             /\ Len(scopes') = Len(scopes) + 1
             /\ out' = out
             /\ ctl'[Len(ctl)].pc \in {"body", "native"}
             /\ ArgSupplied =>
                   scopes'[Len(scopes')][Top.fnDef.param_name] = popValue(stack)
    ]_vars

\* A call f(0 < 1) of main, f declaring an int parameter, has been refused.
C2_Witness ==
    /\ status = "error"
    /\ err = Err("type mismatch", "f")
    /\ Len(Source) = 3
    /\ Source[1].param_type = "int"
    /\ Source[3].body = <<FnCall("f", True)>>
    /\ Len(scopes) = 2
    /\ out = <<>>

\* C3: in a program that defines no main, no output is ever written, no
\* scope is pushed, no call other than the appended call of main starts,
\* the run does not end normally, and it ends with main unbound.
C3_NoMainIsUnbound ==
    (Parsed /\ ~Defines("main")) =>
        /\ out = <<>>
        /\ Len(scopes) <= 1
        /\ stack = <<>>
        /\ nextAid <= 2
        /\ status # "done"
        /\ ~CutOff
        /\ status = "error" => err = Err("unbound", "main")

C3_Witness ==
    /\ Parsed
    /\ ~Defines("main")
    /\ status = "error"
    /\ err = Err("unbound", "main")
    /\ {"f", "g", "print"} \subseteq DOMAIN scopes[1]

\* C4: a lookup made while a call is active finds the name in the call's own
\* scope if that scope binds it, else in the root scope if the root binds
\* it, else nowhere.
C4_OwnScopeOrRoot ==
    lastLookup.cur >= 2 =>
        /\ lastLookup.found <=> (lastLookup.own \/ lastLookup.root)
        /\ lastLookup.found =>
              lastLookup.level = IF lastLookup.own THEN lastLookup.cur ELSE 1

\* C5: when a call completes, the scope chain is what it was when the call
\* started: the same scopes with the same bindings.
C5_CallRestoresScopes ==
    lastExit.self # 0 => lastExit.after = lastExit.entry

\* A recursive call of fact has completed, and the caller's n is not the
\* value that the completed call had bound to n.
C5_Witness ==
    /\ lastExit.self # 0
    /\ lastExit.name = "fact"
    /\ Len(lastExit.after) = Len(scopes)
    /\ Len(scopes) >= 3
    /\ "n" \in DOMAIN lastExit.popped
    /\ "n" \in DOMAIN scopes[Len(scopes)]
    /\ lastExit.popped["n"].value # scopes[Len(scopes)]["n"].value
\* C6: the result of a completed call of a user function (the entry that the
\* call leaves on top of the operand stack for its consumer) is the value
\* of the return thrown in that activation, and is absent (undefined) when
\* the body completed without a return.
C6_ResultIsOwnReturn ==
    (lastExit.self # 0 /\ lastExit.fnType = "FnDef") =>
        lastExit.result = IF lastExit.thrown THEN lastExit.value
                          ELSE Undefined

\* The frames that run statements or expressions of an activation.
BodyFrames ==
    {i \in DOMAIN ctl : ctl[i].fn \in {"forEach", "visitSt", "visitIfSt",
                                       "visitReturnSt", "visitExpr",
                                       "visitArithExpr"}}
\* The innermost live call.
InnermostCall ==
    CHOOSE j \in CallFrames(ctl) : \A i \in CallFrames(ctl) : i <= j

\* C7: no statement or expression of an activation that has thrown a return
\* is executing or waiting to execute; a call that a return has ended has
\* the returned value as its result; and the throw of a return leaves the
\* innermost live call, which is the activation the return belongs to, as
\* the executing frame, past its body, with the returned value on top of the
\* operand stack and every frame of its callers as it was.
C7_ReturnEndsInnermostCall ==
    /\ [](\A i \in BodyFrames : ctl[i].aid \notin returned)
    /\ []((lastExit.self # 0 /\ lastExit.thrown) =>
            lastExit.result = lastExit.value)
    /\ [][Running("visitReturnSt") =>
            /\ CallFrames(ctl) # {}
            /\ LET j == InnermostCall IN
                /\ ctl[j].self = Top.aid
                /\ ctl[j].pc = "body"
                /\ status' = "running"
                /\ Len(ctl') = j
                /\ SubSeq(ctl', 1, j - 1) = SubSeq(ctl, 1, j - 1)
                /\ ctl'[j].self = ctl[j].self
                /\ ctl'[j].pc = "pop"
                /\ stack' = Append(popRest(stack), popValue(stack))
                /\ scopes' = scopes
                /\ out' = out
       ]_vars

\* f(1) returned from inside two nested ifs: neither print(0) after the inner
\* if nor print(1) after the outer if ran, and main went on to print the
\* result.
C7_Witness ==
    /\ status = "done"
    /\ Len(Source) = 3
    /\ Source[1].param_type = "int"
    /\ Source[1].body =
          <<IfSt(True, <<IfSt(True, <<ReturnSt(Ident("n"))>>),
                         FnCall("print", Number(0))>>),
            FnCall("print", Number(1))>>
    /\ Source[3].body = <<FnCall("print", FnCall("f", Number(1)))>>
    /\ out = <<"1">>
    /\ returned = {3}

\* C8: whenever the Interpreter exists and no call is live (before and after
\* the call of main, and after an error has left visitFnCall), the current
\* scope is the root.
C8_ScopePoppedOnEveryExit ==
    (scopes # <<>> /\ CallDepth = 0) => Len(scopes) = 1

\* C9: an expression that completes leaves the operand stack one entry
\* deeper than it found it, and a statement that completes (an if, a call
\* statement) leaves it as deep as it found it.
C9_StackDiscipline ==
    /\ lastDone.kind = "expr" => lastDone.d1 = lastDone.d0 + 1
    /\ lastDone.kind = "st" => lastDone.d1 = lastDone.d0

\* The bindings that are not plain values.
IsFunction(b) ==
    b.type \in {"FnDef", "BuiltInFn"} \/ "jsfunction" \in DOMAIN b

\* C10: a function binding is never on the operand stack, and visitExpr of
\* an ident that resolves to a function ends in an error.
C10_FunctionIsNotAValue ==
    /\ [](\A i \in DOMAIN stack : ~IsFunction(stack[i]))
    /\ [][( /\ Running("visitExpr")
            /\ Top.node.type = "ident"
            /\ lookup(Top.node.value, scopes, Len(scopes)).found
            /\ IsFunction(lookup(Top.node.value, scopes,
                                 Len(scopes)).binding) )
          => status' = "error"]_vars

\* C11: parse over a Lexer of a buffer that conforms to the grammar, with
\* any whitespace before the first token, between tokens and after the last
\* token, raises no error and returns the Program whose body holds the
\* function definitions of the text, in source order.
C11_ParseIsTotal ==
    ctl = <<>> => (status = "done" /\ ast = ProgramOf(file))
====
